---- MODULE Spec2Model ----
(***************************************************************************)
(* The three SocketCAN demo programs (raw echo, broadcast-manager filtered *)
(* echo, broadcast-manager cyclic transmission) as one state machine.  The *)
(* variable prog is the program being run; pc is the position in its main. *)
(* The kernel (system-call results, frames arriving on the bus, delivery   *)
(* of SIGINT/SIGTERM) is the environment.                                  *)
(***************************************************************************)
EXTENDS Integers, Sequences, FiniteSets, TLC

VARIABLES prog, pc, status, handlers, run, masked, pending, sock, closeCalls,
          rc, frame, msg_head, msg_frames, filter, out, err, got, sent,
          setupDone, ioOn, sigs, lastSigPc, orig, applied,
          wlog, task, bus, rxq, extLog

vars == <<prog, pc, status, handlers, run, masked, pending, sock, closeCalls,
          rc, frame, msg_head, msg_frames, filter, out, err, got, sent,
          setupDone, ioOn, sigs, lastSigPc, orig, applied,
          wlog, task, bus, rxq, extLog>>

(* ------------------------------ bounds --------------------------------- *)

\* frames the bus delivers to the session in one run
MaxFrames == 2
\* shutdown signals (SIGINT or SIGTERM) sent to the process in one run
MaxSignals == 2
\* frames the kernel transmits for the cyclic task in one run
MaxTicks == 5
\* frames other parties write to the bus in one run of the bus model
MaxExt == 2

(* ---------------------------- constants -------------------------------- *)

MSGID_RAW == 204
MSGID_BCM == 188
MSGID_CYCLIC == 192
MSGLEN == 3
NFRAMES == 4
RX_FILTER_ID == 291
IVAL_SEC == 1
IVAL_USEC == 200000
CAN_MAX_DLEN == 8
BYTE_MOD == 256

Programs == {"raw", "bcm", "cyclic"}

\* a variant of MSGID in which the filtered echo program answers with the
\* identifier it subscribed to
MSGIDOfFilter(p) == IF p = "raw" THEN MSGID_RAW ELSE IF p = "bcm" THEN RX_FILTER_ID ELSE MSGID_CYCLIC

MSGID(p) == IF p = "raw" THEN MSGID_RAW ELSE IF p = "bcm" THEN MSGID_BCM ELSE MSGID_CYCLIC

(* ------------------------------ frames --------------------------------- *)

ZeroData == [i \in 1..CAN_MAX_DLEN |-> 0]

ZeroFrame == [can_id |-> 0, len |-> 0, data |-> ZeroData]

NoHead == [opcode |-> "NONE", can_id |-> 0, flags |-> {}, count |-> 0,
           ival2 |-> [tv_sec |-> 0, tv_usec |-> 0], nframes |-> 0]

\* no cyclic task is registered with the broadcast manager
NoTask == [head |-> NoHead, frames |-> <<>>]

\* identifiers other parties put on the bus
BusIds == {1110, RX_FILTER_ID}

\* payload buffers of the frames on the bus: an ascending pattern and one
\* whose bytes sit at the wrap-around boundary
AscData == [i \in 1..CAN_MAX_DLEN |-> 16 * i]
WrapData == [i \in 1..CAN_MAX_DLEN |-> IF i % 2 = 1 THEN 255 ELSE 254]

\* payload length and buffer of the frames on the bus: empty, partly used
\* and full payloads (len <= CAN_MAX_DLEN)
BusPayloads == { <<0, AscData>>, <<2, AscData>>, <<2, WrapData>>,
                 <<CAN_MAX_DLEN, WrapData>> }

BusFrames == { [can_id |-> c, len |-> p[1], data |-> p[2]] :
                  c \in BusIds, p \in BusPayloads }

(* --------------------------- print_can_frame --------------------------- *)

HexDigit == <<"0", "1", "2", "3", "4", "5", "6", "7", "8", "9",
              "A", "B", "C", "D", "E", "F">>

RECURSIVE HexStr(_)
HexStr(n) == IF n < 16 THEN HexDigit[n + 1]
             ELSE HexStr(n \div 16) \o HexDigit[(n % 16) + 1]

RECURSIVE NumHexDigits(_)
NumHexDigits(n) == IF n < 16 THEN 1 ELSE 1 + NumHexDigits(n \div 16)

RECURSIVE Zeros(_)
Zeros(k) == IF k <= 0 THEN "" ELSE "0" \o Zeros(k - 1)

\* printf("%0<w>X", n): at least w digits, zero padded, upper case
FmtHex(n, w) == Zeros(w - NumHexDigits(n)) \o HexStr(n)

RECURSIVE DecStr(_)
DecStr(n) == IF n < 10 THEN HexDigit[n + 1]
             ELSE DecStr(n \div 10) \o HexDigit[(n % 10) + 1]

RECURSIVE FmtBytes(_, _, _)
FmtBytes(data, i, len) ==
    IF i >= len THEN ""
    ELSE " " \o FmtHex(data[i + 1], 2) \o FmtBytes(data, i + 1, len)

print_can_frame(f) ==
    FmtHex(f.can_id, 3) \o "  [" \o DecStr(f.len) \o "] " \o FmtBytes(f.data, 0, f.len)

(* ------------------------- payload increment --------------------------- *)

\* a variant of IncByte that saturates at 255 instead of wrapping
IncByteSaturating(b) == IF b >= BYTE_MOD - 1 THEN BYTE_MOD - 1 ELSE b + 1

\* frame.data[i] += 1 on an unsigned char
IncByte(b) == (b + 1) % BYTE_MOD

RECURSIVE IncLoop(_, _, _)
IncLoop(data, i, len) ==
    IF i >= len THEN data
    ELSE IncLoop([data EXCEPT ![i + 1] = IncByte(data[i + 1])], i + 1, len)

increment_payload(f) == [f EXCEPT !.data = IncLoop(f.data, 0, f.len)]

\* a variant of Transform that leaves the identifier of the frame read
TransformKeepsId(p, f) == increment_payload(f)

Transform(p, f) == increment_payload([f EXCEPT !.can_id = MSGID(p)])

(* ------------------------------- Init ---------------------------------- *)

Init ==
    /\ prog \in Programs
    /\ pc = "init_signals"
    /\ status = "running"
    /\ handlers = FALSE
    /\ run = 1
    /\ masked = FALSE
    /\ pending = FALSE
    /\ sock = "none"
    /\ closeCalls = 0
    /\ rc = [call |-> "none", res |-> "ok"]
    /\ frame = ZeroFrame
    /\ msg_head = NoHead
    /\ msg_frames = <<>>
    /\ filter = 0
    /\ out = <<>>
    /\ err = <<>>
    /\ got = <<>>
    /\ sent = <<>>
    /\ setupDone = FALSE
    /\ ioOn = {}
    /\ sigs = 0
    /\ lastSigPc = "none"
    /\ orig = ZeroFrame
    /\ applied = 0
    /\ wlog = <<>>
    /\ task = NoTask
    /\ bus = <<>>
    /\ rxq = <<>>
    /\ extLog = <<>>


(* ------------------------------ helpers -------------------------------- *)

\* errno values of a failing system call: an interruption, or anything else
Errnos == {"EINTR", "EIO"}

Running == status = "running"

\* error(EXIT_FAILURE, errno, op): print the diagnostic and exit
Fatal(op) ==
    /\ err' = Append(err, op)
    /\ status' = "failure"
    /\ pc' = "done"

\* a variant of Deliverable whose filter lets every identifier through
DeliverableAny(f) == prog = "raw" \/ filter # 0

\* the frames the socket hands to read(): every frame on a raw socket, the
\* frames matching the installed RX_SETUP filter on a broadcast-manager one
Deliverable(f) == prog = "raw" \/ (filter # 0 /\ f.can_id = filter)

sigVars == <<handlers, run, masked, pending, sigs, lastSigPc>>
msgVars == <<frame, msg_head, msg_frames>>
histVars == <<got, sent, setupDone, ioOn, wlog>>
kernVars == <<task, bus, rxq, extLog>>
incVars == <<orig, applied>>

(* --------------------------- init_signals ------------------------------ *)

InitSignals ==
    /\ Running /\ pc = "init_signals"
    /\ handlers' = TRUE
    /\ pc' = "socket"
    /\ UNCHANGED <<prog, status, run, masked, pending, sigs, lastSigPc, sock,
                   closeCalls, rc, filter, out, err>>
    /\ UNCHANGED <<msgVars, histVars, incVars>>
    /\ UNCHANGED kernVars

(* ---------------------------- init_socket ------------------------------ *)

InitSocketCreate ==
    /\ Running /\ pc = "socket"
    /\ \E res \in {"ok", "EIO"} :
         /\ rc' = [call |-> "socket", res |-> res]
         /\ IF res = "ok"
            THEN /\ sock' = "open"
                 /\ pc' = "ioctl"
                 /\ UNCHANGED <<err, status>>
            ELSE /\ Fatal("socket")
                 /\ UNCHANGED sock
    /\ UNCHANGED <<prog, closeCalls, filter, out>>
    /\ UNCHANGED <<sigVars, msgVars, histVars, incVars>>
    /\ UNCHANGED kernVars

InitSocketIoctl ==
    /\ Running /\ pc = "ioctl"
    /\ \E res \in {"ok", "EIO"} :
         /\ rc' = [call |-> "ioctl", res |-> res]
         /\ IF res = "ok"
            THEN /\ pc' = "bind"
                 /\ UNCHANGED <<err, status>>
            ELSE Fatal("ioctl")
    /\ UNCHANGED <<prog, sock, closeCalls, filter, out>>
    /\ UNCHANGED <<sigVars, msgVars, histVars, incVars>>
    /\ UNCHANGED kernVars

\* where main continues after init_socket returns
AfterInitSocket(p) ==
    IF p = "raw" THEN "loop" ELSE IF p = "bcm" THEN "rx_setup" ELSE "build_msg"

\* a variant of InitSocketBind that does not check the result of bind/connect
InitSocketBindUnchecked ==
    /\ Running /\ pc = "bind"
    /\ \E res \in {"ok", "EIO"} :
         /\ rc' = [call |-> IF prog = "raw" THEN "bind" ELSE "connect", res |-> res]
         /\ sock' = IF res = "ok" THEN "bound" ELSE sock
         /\ pc' = AfterInitSocket(prog)
         /\ setupDone' = (prog = "raw")
         /\ UNCHANGED <<err, status>>
    /\ UNCHANGED <<prog, closeCalls, filter, out, got, sent, ioOn, wlog>>
    /\ UNCHANGED <<sigVars, msgVars, incVars>>
    /\ UNCHANGED kernVars

\* bind (raw) or connect (broadcast manager); both report the failure as "bind"
InitSocketBind ==
    /\ Running /\ pc = "bind"
    /\ \E res \in {"ok", "EIO"} :
         /\ rc' = [call |-> IF prog = "raw" THEN "bind" ELSE "connect", res |-> res]
         /\ IF res = "ok"
            THEN /\ sock' = "bound"
                 /\ pc' = AfterInitSocket(prog)
                 /\ setupDone' = (prog = "raw")
                 /\ UNCHANGED <<err, status>>
            ELSE /\ Fatal("bind")
                 /\ UNCHANGED <<sock, setupDone>>
    /\ UNCHANGED <<prog, closeCalls, filter, out, got, sent, ioOn, wlog>>
    /\ UNCHANGED <<sigVars, msgVars, incVars>>
    /\ UNCHANGED kernVars


(* ------------------- main (bcm): RX_SETUP subscription ----------------- *)

RxSetupHead == [NoHead EXCEPT !.opcode = "RX_SETUP", !.can_id = RX_FILTER_ID]

\* memset, fill the header, write(sfd, &msg, sizeof(msg)); a failure is fatal
RxSetup ==
    /\ Running /\ pc = "rx_setup" /\ prog = "bcm"
    /\ \E res \in {"ok"} \cup Errnos :
         /\ rc' = [call |-> "write", res |-> res]
         /\ msg_head' = RxSetupHead
         /\ frame' = ZeroFrame
         /\ ioOn' = ioOn \cup {sock}
         /\ wlog' = Append(wlog, [head |-> RxSetupHead, frames |-> <<ZeroFrame>>])
         /\ IF res = "ok"
            THEN /\ filter' = RxSetupHead.can_id
                 /\ pc' = "loop"
                 /\ setupDone' = TRUE
                 /\ UNCHANGED <<err, status>>
            ELSE /\ Fatal("write")
                 /\ UNCHANGED <<filter, setupDone>>
    /\ UNCHANGED <<prog, sock, closeCalls, out, got, sent, msg_frames>>
    /\ UNCHANGED <<sigVars, incVars>>
    /\ UNCHANGED kernVars

(* --------------------- main (cyclic): TX_SETUP task -------------------- *)

TxSetupHead == [opcode |-> "TX_SETUP", can_id |-> 0,
                flags |-> {"SETTIMER", "STARTTIMER"}, count |-> 0,
                ival2 |-> [tv_sec |-> IVAL_SEC, tv_usec |-> IVAL_USEC],
                nframes |-> NFRAMES]

\* a variant of CyclicFrame that gives every frame of the task the base id
CyclicFrameSameId(i) ==
    [can_id |-> MSGID_CYCLIC, len |-> MSGLEN,
     data |-> [k \in 1..CAN_MAX_DLEN |-> IF k <= MSGLEN THEN i ELSE 0]]

\* frames[i]: can_id = MSGID + i, len = MSGLEN, memset(data, i, MSGLEN)
CyclicFrame(i) ==
    [can_id |-> MSGID_CYCLIC + i, len |-> MSGLEN,
     data |-> [k \in 1..CAN_MAX_DLEN |-> IF k <= MSGLEN THEN i ELSE 0]]

BuildMsg ==
    /\ Running /\ pc = "build_msg" /\ prog = "cyclic"
    /\ msg_head' = TxSetupHead
    /\ msg_frames' = [i \in 1..NFRAMES |-> CyclicFrame(i - 1)]
    /\ pc' = "tx_setup"
    /\ UNCHANGED <<prog, status, sock, closeCalls, rc, frame, filter, out, err>>
    /\ UNCHANGED <<sigVars, histVars, incVars>>
    /\ UNCHANGED kernVars

\* a variant of TxSetup that reports a failed write with error(0, ...) and
\* carries on
TxSetupLenient ==
    /\ Running /\ pc = "tx_setup" /\ prog = "cyclic"
    /\ \E res \in {"ok"} \cup Errnos :
         /\ rc' = [call |-> "write", res |-> res]
         /\ ioOn' = ioOn \cup {sock}
         /\ wlog' = Append(wlog, [head |-> msg_head, frames |-> msg_frames])
         /\ pc' = "print_info"
         /\ setupDone' = TRUE
         /\ IF res = "ok"
            THEN /\ task' = [head |-> msg_head, frames |-> msg_frames]
                 /\ UNCHANGED err
            ELSE /\ err' = Append(err, "write")
                 /\ UNCHANGED task
    /\ UNCHANGED <<prog, status, sock, closeCalls, filter, out, got, sent>>
    /\ UNCHANGED <<sigVars, msgVars, incVars>>
    /\ UNCHANGED <<bus, rxq, extLog>>

\* write(sfd, &msg, sizeof(msg)); a failure is fatal
TxSetup ==
    /\ Running /\ pc = "tx_setup" /\ prog = "cyclic"
    /\ \E res \in {"ok"} \cup Errnos :
         /\ rc' = [call |-> "write", res |-> res]
         /\ ioOn' = ioOn \cup {sock}
         /\ wlog' = Append(wlog, [head |-> msg_head, frames |-> msg_frames])
         /\ IF res = "ok"
            THEN /\ pc' = "print_info"
                 /\ setupDone' = TRUE
                 /\ task' = [head |-> msg_head, frames |-> msg_frames]
                 /\ UNCHANGED <<err, status>>
            ELSE /\ Fatal("write")
                 /\ UNCHANGED <<setupDone, task>>
    /\ UNCHANGED <<prog, sock, closeCalls, filter, out, got, sent>>
    /\ UNCHANGED <<sigVars, msgVars, incVars>>
    /\ UNCHANGED <<bus, rxq, extLog>>

PrintInfo ==
    /\ Running /\ pc = "print_info"
    /\ out' = Append(out, "Cyclic messages registed with SocketCAN!")
    /\ pc' = "suspend"
    /\ UNCHANGED <<prog, status, sock, closeCalls, rc, filter, err>>
    /\ UNCHANGED <<sigVars, msgVars, histVars, incVars>>
    /\ UNCHANGED kernVars

\* sigfillset, sigdelset x2, then the process enters sigsuspend(&mask)
SuspendEnter ==
    /\ Running /\ pc = "suspend"
    /\ pc' = "suspend_wait"
    /\ UNCHANGED <<prog, status, sock, closeCalls, rc, filter, out, err>>
    /\ UNCHANGED <<sigVars, msgVars, histVars, incVars>>
    /\ UNCHANGED kernVars

(* ----------------------- main (raw, bcm): the loop --------------------- *)

\* a variant of LoopTest for a do { ... } while (run) loop: the body is
\* entered once before run is tested
LoopTestDoWhile ==
    /\ Running /\ pc = "loop"
    /\ pc' = IF run # 0 \/ (got = <<>> /\ rc.call \in {"bind", "write"})
             THEN "read" ELSE "cleanup"
    /\ UNCHANGED <<prog, status, sock, closeCalls, rc, filter, out, err>>
    /\ UNCHANGED <<sigVars, msgVars, histVars, incVars>>
    /\ UNCHANGED kernVars

\* while (run)
LoopTest ==
    /\ Running /\ pc = "loop"
    /\ pc' = IF run # 0 THEN "read" ELSE "cleanup"
    /\ UNCHANGED <<prog, status, sock, closeCalls, rc, filter, out, err>>
    /\ UNCHANGED <<sigVars, msgVars, histVars, incVars>>
    /\ UNCHANGED kernVars

\* the process enters read(sfd, ...) and blocks
ReadEnter ==
    /\ Running /\ pc = "read"
    /\ pc' = "read_wait"
    /\ ioOn' = ioOn \cup {sock}
    /\ UNCHANGED <<prog, status, sock, closeCalls, rc, filter, out, err, got, sent,
                   setupDone, wlog>>
    /\ UNCHANGED <<sigVars, msgVars, incVars>>
    /\ UNCHANGED kernVars

\* the header the broadcast manager puts in front of a delivered frame
RxChangedHead(f) == [NoHead EXCEPT !.opcode = "RX_CHANGED", !.can_id = f.can_id,
                                   !.nframes = 1]

\* a frame arrives and read returns it
ReadFrame ==
    /\ Running /\ pc = "read_wait"
    /\ Len(got) < MaxFrames
    /\ \E f \in BusFrames :
         /\ Deliverable(f)
         /\ frame' = f
         /\ msg_head' = IF prog = "bcm" THEN RxChangedHead(f) ELSE msg_head
         /\ got' = Append(got, f)
    /\ rc' = [call |-> "read", res |-> "ok"]
    /\ pc' = "read_ret"
    /\ UNCHANGED <<prog, status, sock, closeCalls, filter, out, err, sent,
                   setupDone, ioOn, wlog, msg_frames>>
    /\ UNCHANGED <<sigVars, incVars>>
    /\ UNCHANGED kernVars

\* read returns -1 with errno set
ReadFail ==
    /\ Running /\ pc = "read_wait"
    /\ \E e \in Errnos : rc' = [call |-> "read", res |-> e]
    /\ pc' = "read_ret"
    /\ UNCHANGED <<prog, status, sock, closeCalls, filter, out, err>>
    /\ UNCHANGED <<sigVars, msgVars, histVars, incVars>>
    /\ UNCHANGED kernVars

\* a variant of ReadCheck that treats a read failure like a setup failure:
\* error(EXIT_FAILURE, errno, "read")
ReadCheckExits ==
    /\ Running /\ pc = "read_ret"
    /\ IF rc.res = "ok"
       THEN pc' = "print_rx" /\ UNCHANGED <<err, status>>
       ELSE IF rc.res = "EINTR"
            THEN pc' = "loop" /\ UNCHANGED <<err, status>>
            ELSE Fatal("read")
    /\ UNCHANGED <<prog, sock, closeCalls, rc, filter, out>>
    /\ UNCHANGED <<sigVars, msgVars, histVars, incVars>>
    /\ UNCHANGED kernVars

\* a variant of ReadCheck without the EINTR test: every failure ends the loop
ReadCheckNoRetry ==
    /\ Running /\ pc = "read_ret"
    /\ IF rc.res = "ok"
       THEN pc' = "print_rx" /\ UNCHANGED err
       ELSE pc' = "cleanup" /\ err' = Append(err, "read")
    /\ UNCHANGED <<prog, status, sock, closeCalls, rc, filter, out>>
    /\ UNCHANGED <<sigVars, msgVars, histVars, incVars>>
    /\ UNCHANGED kernVars

\* if (-1 == n) { if (EINTR == errno) continue; error(0, errno, "read"); break; }
ReadCheck ==
    /\ Running /\ pc = "read_ret"
    /\ IF rc.res = "ok"
       THEN pc' = "print_rx" /\ UNCHANGED err
       ELSE IF rc.res = "EINTR"
            THEN pc' = "loop" /\ UNCHANGED err
            ELSE pc' = "cleanup" /\ err' = Append(err, "read")
    /\ UNCHANGED <<prog, status, sock, closeCalls, rc, filter, out>>
    /\ UNCHANGED <<sigVars, msgVars, histVars, incVars>>
    /\ UNCHANGED kernVars

PrintRx ==
    /\ Running /\ pc = "print_rx"
    /\ out' = Append(out, "RX:  " \o print_can_frame(frame))
    /\ pc' = "transform"
    /\ UNCHANGED <<prog, status, sock, closeCalls, rc, filter, err>>
    /\ UNCHANGED <<sigVars, msgVars, histVars, incVars>>
    /\ UNCHANGED kernVars

\* a variant of TxSendHead that leaves the identifier of the received header
TxSendHeadKeepsId(h) == [h EXCEPT !.opcode = "TX_SEND", !.nframes = 1]

\* the TX_SEND header the bcm program writes in front of the frame
TxSendHead(h) == [h EXCEPT !.opcode = "TX_SEND", !.can_id = 0, !.nframes = 1]

\* a variant of TransformFrame that tests the flag again before the write
TransformFrameChecksRun ==
    /\ Running /\ pc = "transform"
    /\ IF run # 0
       THEN /\ frame' = Transform(prog, frame)
            /\ msg_head' = IF prog = "bcm" THEN TxSendHead(msg_head) ELSE msg_head
            /\ pc' = "write"
       ELSE /\ pc' = "cleanup"
            /\ UNCHANGED <<frame, msg_head>>
    /\ UNCHANGED <<prog, status, sock, closeCalls, rc, filter, out, err, msg_frames>>
    /\ UNCHANGED <<sigVars, histVars, incVars>>
    /\ UNCHANGED kernVars

\* set the identifier, increment the payload (bcm: fill the TX_SEND header)
TransformFrame ==
    /\ Running /\ pc = "transform"
    /\ frame' = Transform(prog, frame)
    /\ msg_head' = IF prog = "bcm" THEN TxSendHead(msg_head) ELSE msg_head
    /\ pc' = "write"
    /\ UNCHANGED <<prog, status, sock, closeCalls, rc, filter, out, err, msg_frames>>
    /\ UNCHANGED <<sigVars, histVars, incVars>>
    /\ UNCHANGED kernVars

\* the process enters write(sfd, ...)
WriteEnter ==
    /\ Running /\ pc = "write"
    /\ pc' = "write_wait"
    /\ ioOn' = ioOn \cup {sock}
    /\ wlog' = Append(wlog, [head |-> msg_head, frames |-> <<frame>>])
    /\ UNCHANGED <<prog, status, sock, closeCalls, rc, filter, out, err, got, sent,
                   setupDone>>
    /\ UNCHANGED <<sigVars, msgVars, incVars>>
    /\ UNCHANGED kernVars

\* a frame the broadcast-manager session sends is on the bus like any other:
\* its own subscription receives it if the frame passes the filter
LoopedBack(f) == prog = "bcm" /\ Deliverable(f)

\* write returns: the frame was queued for transmission, or -1 with errno set
WriteReturn ==
    /\ Running /\ pc = "write_wait"
    /\ \E res \in {"ok"} \cup Errnos :
         /\ rc' = [call |-> "write", res |-> res]
         /\ sent' = IF res = "ok" THEN Append(sent, frame) ELSE sent
         /\ rxq' = IF res = "ok" /\ LoopedBack(frame) THEN Append(rxq, frame) ELSE rxq
    /\ pc' = "write_ret"
    /\ UNCHANGED <<prog, status, sock, closeCalls, filter, out, err, got,
                   setupDone, ioOn, wlog>>
    /\ UNCHANGED <<sigVars, msgVars, incVars>>
    /\ UNCHANGED <<task, bus, extLog>>

\* a variant of WriteCheck that prints the TX line after an interrupted write
WriteCheckPrintsInterrupted ==
    /\ Running /\ pc = "write_ret"
    /\ IF rc.res \in {"ok", "EINTR"}
       THEN pc' = "print_tx" /\ UNCHANGED err
       ELSE pc' = "cleanup" /\ err' = Append(err, "write")
    /\ UNCHANGED <<prog, status, sock, closeCalls, rc, filter, out>>
    /\ UNCHANGED <<sigVars, msgVars, histVars, incVars>>
    /\ UNCHANGED kernVars

\* if (-1 == n) { if (EINTR == errno) continue; error(0, errno, "write"); break; }
WriteCheck ==
    /\ Running /\ pc = "write_ret"
    /\ IF rc.res = "ok"
       THEN pc' = "print_tx" /\ UNCHANGED err
       ELSE IF rc.res = "EINTR"
            THEN pc' = "loop" /\ UNCHANGED err
            ELSE pc' = "cleanup" /\ err' = Append(err, "write")
    /\ UNCHANGED <<prog, status, sock, closeCalls, rc, filter, out>>
    /\ UNCHANGED <<sigVars, msgVars, histVars, incVars>>
    /\ UNCHANGED kernVars

PrintTx ==
    /\ Running /\ pc = "print_tx"
    /\ out' = Append(out, "TX:  " \o print_can_frame(frame))
    /\ pc' = "loop"
    /\ UNCHANGED <<prog, status, sock, closeCalls, rc, filter, err>>
    /\ UNCHANGED <<sigVars, msgVars, histVars, incVars>>
    /\ UNCHANGED kernVars

(* ------------------------------ cleanup -------------------------------- *)

\* a variant of CleanupMask that goes on to close without blocking the signals
CleanupNoMask ==
    /\ Running /\ pc = "cleanup"
    /\ pc' = "close"
    /\ UNCHANGED <<prog, status, sock, closeCalls, rc, filter, out, err>>
    /\ UNCHANGED <<sigVars, msgVars, histVars, incVars>>
    /\ UNCHANGED kernVars

\* sigprocmask(SIG_BLOCK, {SIGINT, SIGTERM})
CleanupMask ==
    /\ Running /\ pc = "cleanup"
    /\ masked' = TRUE
    /\ pc' = "close"
    /\ UNCHANGED <<prog, status, handlers, run, pending, sigs, lastSigPc, sock,
                   closeCalls, rc, filter, out, err>>
    /\ UNCHANGED <<msgVars, histVars, incVars>>
    /\ UNCHANGED kernVars

\* a variant of CleanupClose that reports a failed close with error(0, ...)
\* and carries on
CleanupCloseLenient ==
    /\ Running /\ pc = "close"
    /\ closeCalls' = closeCalls + 1
    /\ sock' = "closed"
    /\ \E res \in {"ok", "EIO"} :
         /\ rc' = [call |-> "close", res |-> res]
         /\ err' = IF res = "ok" THEN err ELSE Append(err, "close")
    /\ pc' = "goodbye"
    /\ UNCHANGED <<prog, status, filter, out>>
    /\ UNCHANGED <<sigVars, msgVars, histVars, incVars>>
    /\ UNCHANGED kernVars

\* rc = close(sfd); if (-1 == rc) error(EXIT_FAILURE, errno, "close");
CleanupClose ==
    /\ Running /\ pc = "close"
    /\ closeCalls' = closeCalls + 1
    /\ sock' = "closed"
    /\ \E res \in {"ok", "EIO"} :
         /\ rc' = [call |-> "close", res |-> res]
         /\ IF res = "ok"
            THEN pc' = "goodbye" /\ UNCHANGED <<err, status>>
            ELSE Fatal("close")
    /\ UNCHANGED <<prog, filter, out>>
    /\ UNCHANGED <<sigVars, msgVars, histVars, incVars>>
    /\ UNCHANGED kernVars

\* puts("Goodbye!"); return EXIT_SUCCESS;
Goodbye ==
    /\ Running /\ pc = "goodbye"
    /\ out' = Append(out, "Goodbye!")
    /\ status' = "success"
    /\ pc' = "done"
    /\ UNCHANGED <<prog, sock, closeCalls, rc, filter, err>>
    /\ UNCHANGED <<sigVars, msgVars, histVars, incVars>>
    /\ UNCHANGED kernVars


(* --------------------- delivery of SIGINT / SIGTERM -------------------- *)

\* a variant of on_signal that flips the flag
on_signal_toggle(p, r) == IF p = "cyclic" THEN r ELSE 1 - r

\* on_signal: the echo programs clear run, the cyclic program does nothing
on_signal(p, r) == IF p = "cyclic" THEN r ELSE 0

\* the blocking calls a caught signal interrupts (sa_flags = 0: no restart)
Blocking == {"read_wait", "write_wait", "suspend_wait"}

InterruptedCall(at) ==
    IF at = "read_wait" THEN "read" ELSE IF at = "write_wait" THEN "write" ELSE "sigsuspend"

\* where a blocking call interrupted at pc `at` returns to
InterruptedTo(at) ==
    IF at = "read_wait" THEN "read_ret"
    ELSE IF at = "write_wait" THEN "write_ret" ELSE "cleanup"

\* SIGINT or SIGTERM is sent to the process.  Before sigaction the default
\* disposition ends the process; while blocked by cleanup's sigprocmask the
\* signal stays pending; otherwise the handler runs at once and a blocking
\* call in progress returns -1 with EINTR.
Signal ==
    /\ Running /\ sigs < MaxSignals
    /\ sigs' = sigs + 1
    /\ lastSigPc' = pc
    /\ IF ~handlers
       THEN /\ status' = "killed"
            /\ pc' = "done"
            /\ UNCHANGED <<run, pending, rc>>
       ELSE IF masked
            THEN /\ pending' = TRUE
                 /\ UNCHANGED <<status, pc, run, rc>>
            ELSE /\ run' = on_signal(prog, run)
                 /\ IF pc \in Blocking
                    THEN /\ rc' = [call |-> InterruptedCall(pc), res |-> "EINTR"]
                         /\ pc' = InterruptedTo(pc)
                    ELSE UNCHANGED <<pc, rc>>
                 /\ UNCHANGED <<status, pending>>
    /\ UNCHANGED <<prog, handlers, masked, sock, closeCalls, filter, out, err>>
    /\ UNCHANGED <<msgVars, histVars, incVars>>
    /\ UNCHANGED kernVars

(* ------------- the broadcast manager's cyclic transmission ------------- *)

\* a variant of TaskFrame that starts over after the second frame of the task
TaskFrameShortCycle(t, k) == t.frames[(k % 2) + 1]

\* the frame the broadcast manager sends after k frames of the task were sent
TaskFrame(t, k) == t.frames[(k % Len(t.frames)) + 1]

\* the timer of the registered task expires: the broadcast manager puts the
\* next frame of the task on the bus, as long as the owning socket is open
KernelTx ==
    /\ Running /\ sock = "bound"
    /\ task.frames # <<>>
    /\ {"SETTIMER", "STARTTIMER"} \subseteq task.head.flags
    /\ Len(bus) < MaxTicks
    /\ bus' = Append(bus, TaskFrame(task, Len(bus)))
    /\ UNCHANGED <<prog, pc, status, sock, closeCalls, rc, filter, out, err>>
    /\ UNCHANGED <<sigVars, msgVars, histVars, incVars>>
    /\ UNCHANGED <<task, rxq, extLog>>

(* -------------------- other parties write to the bus ------------------- *)

\* the frames other parties write: two different frames with the filter's
\* identifier and one with another identifier
ExtFrames == {f \in BusFrames : f.len = 2 /\ (f.can_id = RX_FILTER_ID \/ f.data = AscData)}

\* another party writes frame f to the bus; the socket queues it for read()
\* if it is open and the frame passes its filter
BusWrite ==
    /\ Len(extLog) < MaxExt
    /\ \E f \in ExtFrames :
         LET open == Running /\ sock = "bound" /\ filter # 0
         IN  /\ extLog' = Append(extLog, [frame |-> f, sub |-> open])
             /\ rxq' = IF open /\ Deliverable(f) THEN Append(rxq, f) ELSE rxq
    /\ UNCHANGED <<prog, pc, status, sock, closeCalls, rc, filter, out, err>>
    /\ UNCHANGED <<sigVars, msgVars, histVars, incVars>>
    /\ UNCHANGED <<task, bus>>

\* read returns the oldest frame queued on the socket
ReadQueued ==
    /\ Running /\ pc = "read_wait"
    /\ rxq # <<>>
    /\ frame' = Head(rxq)
    /\ msg_head' = IF prog = "bcm" THEN RxChangedHead(Head(rxq)) ELSE msg_head
    /\ got' = Append(got, Head(rxq))
    /\ rxq' = Tail(rxq)
    /\ rc' = [call |-> "read", res |-> "ok"]
    /\ pc' = "read_ret"
    /\ UNCHANGED <<prog, status, sock, closeCalls, filter, out, err, sent,
                   setupDone, ioOn, wlog, msg_frames>>
    /\ UNCHANGED <<sigVars, incVars>>
    /\ UNCHANGED <<task, bus, extLog>>

(* --------------------------- specification ----------------------------- *)

\* the steps the process takes by itself once it is scheduled, including the
\* return of the system calls that do not wait for the bus
ProcStep ==
    \/ InitSignals
    \/ InitSocketCreate
    \/ InitSocketIoctl
    \/ InitSocketBind
    \/ RxSetup
    \/ BuildMsg
    \/ TxSetup
    \/ PrintInfo
    \/ SuspendEnter
    \/ LoopTest
    \/ ReadEnter
    \/ ReadCheck
    \/ PrintRx
    \/ TransformFrame
    \/ WriteEnter
    \/ WriteReturn
    \/ WriteCheck
    \/ PrintTx
    \/ CleanupMask
    \/ CleanupClose
    \/ Goodbye

\* what the environment decides: a frame arrives, a read fails, a signal is
\* sent, the timer of the cyclic task expires
EnvStep ==
    \/ ReadFrame
    \/ ReadFail
    \/ Signal
    \/ KernelTx

Next == ProcStep \/ EnvStep

Spec == Init /\ [][Next]_vars

\* the scheduler runs the process whenever it can take a step; nothing
\* obliges the environment to send a frame, an error or a signal
FairSpec == Init /\ [][Next]_vars /\ WF_vars(ProcStep)

(* ------- the filtered echo program with the other parties' writes ------ *)

BusInit == Init /\ prog = "bcm"

\* the steps of the filtered echo program
BusProcStep ==
    \/ InitSignals
    \/ InitSocketCreate
    \/ InitSocketIoctl
    \/ InitSocketBind
    \/ RxSetup
    \/ LoopTest
    \/ ReadEnter
    \/ ReadCheck
    \/ PrintRx
    \/ TransformFrame
    \/ WriteEnter
    \/ WriteReturn
    \/ WriteCheck
    \/ PrintTx
    \/ CleanupMask
    \/ CleanupClose
    \/ Goodbye

\* here read() returns the frames other parties actually wrote
BusEnvStep ==
    \/ BusWrite
    \/ ReadQueued
    \/ ReadFail
    \/ Signal

BusNext == BusProcStep \/ BusEnvStep

BusSpec == BusInit /\ [][BusNext]_vars

(* ------------- the payload increment, applied repeatedly --------------- *)

IncInit ==
    /\ prog \in {"raw", "bcm"}
    /\ orig \in BusFrames
    /\ frame = orig
    /\ applied = 0
    /\ pc = "transform"
    /\ status = "running"
    /\ handlers = TRUE
    /\ run = 1
    /\ masked = FALSE
    /\ pending = FALSE
    /\ sock = "bound"
    /\ closeCalls = 0
    /\ rc = [call |-> "read", res |-> "ok"]
    /\ msg_head = NoHead
    /\ msg_frames = <<>>
    /\ filter = 0
    /\ out = <<>>
    /\ err = <<>>
    /\ got = <<>>
    /\ sent = <<>>
    /\ setupDone = TRUE
    /\ ioOn = {}
    /\ sigs = 0
    /\ lastSigPc = "none"
    /\ wlog = <<>>
    /\ task = NoTask
    /\ bus = <<>>
    /\ rxq = <<>>
    /\ extLog = <<>>

\* one more pass of the increment loop over the same frame
IncStep ==
    /\ applied < BYTE_MOD
    /\ frame' = increment_payload(frame)
    /\ applied' = applied + 1
    /\ UNCHANGED <<prog, pc, status, sock, closeCalls, rc, msg_head, msg_frames,
                   filter, out, err, orig>>
    /\ UNCHANGED <<sigVars, histVars>>
    /\ UNCHANGED kernVars

IncNext == IncStep

IncSpec == IncInit /\ [][IncNext]_vars


(* ======================================================================= *)
(*                               properties                                *)
(* ======================================================================= *)

Terminated == status \in {"success", "failure"}

EchoProg == prog \in {"raw", "bcm"}

Last(q) == q[Len(q)]

RECURSIVE Count(_, _)
Count(q, x) == IF q = <<>> THEN 0
               ELSE (IF Head(q) = x THEN 1 ELSE 0) + Count(Tail(q), x)

Contains(q, x) == \E i \in 1..Len(q) : q[i] = x

(* ------------------------------- C1 ------------------------------------ *)

\* C1 (as stated): on every path on which the socket has been created, close
\* is attempted before the process terminates, the setup error paths and the
\* loop's read/write error paths included.
C1_CloseNeverSkipped ==
    (Terminated /\ sock # "none") => closeCalls >= 1

\* C1 (amended): once setup has completed (socket created, interface
\* resolved, bound or connected, RX_SETUP / TX_SETUP written), close is
\* attempted exactly once before the process terminates, also after a read or
\* write failure in the loop; a setup failure after the socket was created
\* ends the process with a failure status and without a call of close.
C1_CloseAfterSetup ==
    (Terminated /\ sock # "none") =>
        IF setupDone THEN closeCalls = 1
        ELSE closeCalls = 0 /\ status = "failure"

\* a loop read failure was logged and the socket was still closed
C1_Witness ==
    /\ Terminated /\ setupDone
    /\ Contains(err, "read")
    /\ closeCalls = 1

(* ------------------------------- C2 ------------------------------------ *)

\* C2: close is invoked at most once, and every read, write or setup command
\* is issued on a socket that is bound/connected and not yet closed.
C2_CloseOnceIoWhileBound ==
    /\ closeCalls <= 1
    /\ ioOn \subseteq {"bound"}
    /\ sock = "closed" => pc \in {"goodbye", "done"}
    /\ pc \in {"rx_setup", "tx_setup", "read", "read_wait", "write", "write_wait"}
          => sock = "bound"

\* a run that did I/O, closed the socket once and ended
C2_Witness ==
    /\ status = "success" /\ closeCalls = 1
    /\ ioOn = {"bound"} /\ Len(sent) > 0

(* ------------------------------- C3 ------------------------------------ *)

\* C3: in the echo programs, once a shutdown signal has been handled (run
\* cleared) after setup, the loop eventually exits and close is invoked, even
\* if no further frame arrives.
C3_SignalLeadsToClose ==
    (EchoProg /\ setupDone /\ run = 0) ~> (closeCalls >= 1)

(* ------------------------------- C4 ------------------------------------ *)

\* a signal was delivered while the handlers were installed and not blocked
SignalHandled == lastSigPc \notin {"none", "init_signals", "close", "goodbye"}

\* C4: in the cyclic program a single handled shutdown signal, whenever it is
\* delivered, eventually makes the process leave the wait and invoke close.
C4_SignalLeadsToClose ==
    (prog = "cyclic" /\ setupDone /\ SignalHandled) ~> (closeCalls >= 1)

(* ------------------------------- C5 ------------------------------------ *)

\* positions at which the frame read last is still on its way to the bus
InFlight == pc \in {"read_ret", "print_rx", "transform", "write", "write_wait", "write_ret"}

\* C5: every frame read is written successfully, or a write error is reported
\* for it, or it is still being processed: none is silently dropped (an
\* interrupted write is retried).
C5_NoFrameDropped ==
    EchoProg =>
        Len(got) - Len(sent) - Count(err, "write") <= (IF InFlight THEN 1 ELSE 0)

(* ------------------------------- C6 ------------------------------------ *)

\* C6: a read interrupted while run is set prints nothing, writes nothing and
\* goes back to the loop head, from where the read is issued again; a read
\* failing otherwise is logged once, is not retried, ends the loop, and the
\* session goes on to close.
C6_ReadErrorPolicy ==
    [][ /\ (pc = "read_ret" /\ pc' # pc /\ rc.res = "EINTR" /\ run # 0) =>
             (out' = out /\ err' = err /\ sent' = sent /\ ioOn' = ioOn /\ pc' = "loop")
        /\ (pc = "loop" /\ pc' # pc /\ run # 0) => pc' = "read"
        /\ (pc = "read_ret" /\ pc' # pc /\ rc.res \notin {"ok", "EINTR"}) =>
             (err' = Append(err, "read") /\ out' = out /\ pc' = "cleanup")
        /\ (pc = "cleanup" /\ pc' # pc) => pc' = "close"
        /\ (pc = "close" /\ pc' # pc) => closeCalls' = closeCalls + 1 ]_vars

\* the read was interrupted with run still set, and has been issued again
C6_Witness ==
    /\ pc = "read_wait" /\ run = 1
    /\ rc = [call |-> "read", res |-> "EINTR"]
    /\ out = <<>> /\ sent = <<>>

(* ------------------------------- C7 ------------------------------------ *)

\* C7: the exit status is success exactly when the process shut down
\* gracefully on a signal; every setup failure and every logged read/write
\* failure ends the process with a failure status.
C7_ExitStatus ==
    /\ status = "success" => (err = <<>> /\ sigs > 0)
    /\ (Terminated /\ err # <<>>) => status = "failure"


(* ------------------------------- C8 ------------------------------------ *)

CloseFailed == rc.call = "close" /\ rc.res # "ok"

\* C8 (as stated): when close fails the failure is reported and the process
\* still ends the normal way: shutdown message, success status.
C8_CloseErrorTolerated ==
    (Terminated /\ CloseFailed) =>
        (Contains(err, "close") /\ Contains(out, "Goodbye!") /\ status = "success")

\* C8 (amended): when close fails the failure is reported with the diagnostic
\* "close" and the process ends at once with a failure status, without the
\* shutdown message.
C8_CloseErrorFatal ==
    CloseFailed =>
        /\ status = "failure" /\ pc = "done"
        /\ Last(err) = "close"
        /\ ~Contains(out, "Goodbye!")
        /\ closeCalls = 1

\* close has failed at the end of a run that echoed a frame
C8_Witness == CloseFailed /\ Terminated /\ Len(sent) > 0

(* ------------------------------- C9 ------------------------------------ *)

\* the frame of the raw example, as read from the bus
ExampleFrame(id) == [can_id |-> id, len |-> 2, data |-> [i \in 1..8 |-> 16 * i]]

\* the frame a boundary payload is read with
WrapFrame(id) ==
    [can_id |-> id, len |-> 2, data |-> [i \in 1..8 |-> IF i % 2 = 1 THEN 255 ELSE 254]]

\* positions at which frame holds the transformed copy of the frame read last
Transformed == pc \in {"write", "write_wait", "write_ret", "print_tx"}

\* C9: the frame handed to write has the program's identifier (0x0CC raw,
\* 0x0BC bcm), the length of the frame read, each of the first len bytes
\* incremented modulo 256 and the other bytes unchanged; the RX line shows the
\* frame as read, the TX line the transformed frame.
C9_Transform ==
    /\ (EchoProg /\ Transformed) =>
          LET f == Last(got) IN
          /\ frame.can_id = (IF prog = "raw" THEN 204 ELSE 188)
          /\ frame.len = f.len
          /\ \A i \in 1..8 :
                frame.data[i] = IF i <= f.len THEN (f.data[i] + 1) % 256 ELSE f.data[i]
    /\ (prog = "raw" /\ pc = "transform" /\ Last(got) = ExampleFrame(1110)) =>
          Last(out) = "RX:  456  [2]  10 20"
    /\ (prog = "raw" /\ pc = "loop" /\ rc = [call |-> "write", res |-> "ok"]
          /\ got # <<>> /\ Last(got) = ExampleFrame(1110)) =>
          Last(out) = "TX:  0CC  [2]  11 21"
    /\ (prog = "raw" /\ pc = "loop" /\ rc = [call |-> "write", res |-> "ok"]
          /\ got # <<>> /\ Last(got) = WrapFrame(291)) =>
          Last(out) = "TX:  0CC  [2]  00 FF"
    /\ (prog = "bcm" /\ pc = "transform" /\ Last(got) = ExampleFrame(291)) =>
          Last(out) = "RX:  123  [2]  10 20"
    /\ (prog = "bcm" /\ pc = "loop" /\ rc = [call |-> "write", res |-> "ok"]
          /\ got # <<>> /\ Last(got) = ExampleFrame(291)) =>
          Last(out) = "TX:  0BC  [2]  11 21"

\* the raw example has been read, echoed and printed
C9_Witness ==
    /\ prog = "raw" /\ pc = "loop"
    /\ out = <<"RX:  456  [2]  10 20", "TX:  0CC  [2]  11 21">>
    /\ sent = << [can_id |-> 204, len |-> 2,
                  data |-> <<17, 33, 48, 64, 80, 96, 112, 128>>] >>

(* ------------------------------- C10 ----------------------------------- *)

\* C10: 256 successive payload increments give back the first len bytes and
\* leave the length alone; each byte wraps (255 -> 0) and no smaller number of
\* increments gives the payload back.
C10_IncrementWraps ==
    /\ frame.len = orig.len
    /\ frame.can_id = orig.can_id
    /\ applied = 256 => \A i \in 1..orig.len : frame.data[i] = orig.data[i]
    /\ applied \in 1..255 => \A i \in 1..orig.len : frame.data[i] # orig.data[i]
    /\ \A i \in 1..orig.len : frame.data[i] = (orig.data[i] + applied) % 256
    /\ \A i \in (orig.len + 1)..8 : frame.data[i] = orig.data[i]

\* 256 increments applied to a full-length payload holding the byte 255
C10_Witness ==
    /\ applied = 256
    /\ orig.len = 8 /\ orig.data[1] = 255
    /\ frame.data = orig.data

(* ---------------------- C11: the TX_SETUP command ---------------------- *)

\* C11: every command the cyclic program writes is a TX_SETUP with flags
\* SETTIMER|STARTTIMER, frame count 4 and the one interval 1 s 200000 us in its
\* header, followed by exactly the frames i = 0..3 with identifier 0x0C0 + i,
\* length 3 and payload [i, i, i]; the frames carry no interval of their own,
\* and the task the broadcast manager holds is the command that was written.
C11_TxSetupContent ==
    prog = "cyclic" =>
        /\ \A n \in 1..Len(wlog) :
              /\ wlog[n].head.opcode = "TX_SETUP"
              /\ wlog[n].head.flags = {"SETTIMER", "STARTTIMER"}
              /\ wlog[n].head.nframes = 4
              /\ wlog[n].head.ival2 = [tv_sec |-> 1, tv_usec |-> 200000]
              /\ Len(wlog[n].frames) = 4
              /\ \A i \in 0..3 :
                    wlog[n].frames[i + 1] =
                        [can_id |-> 192 + i, len |-> 3,
                         data |-> <<i, i, i, 0, 0, 0, 0, 0>>]
        /\ task # NoTask => Len(wlog) = 1 /\ task = wlog[1]

\* the task was written and accepted, the process waits in sigsuspend
C11_Witness ==
    /\ prog = "cyclic" /\ pc = "suspend_wait"
    /\ Len(wlog) = 1 /\ task = wlog[1] /\ Len(task.frames) = 4

(* ------------------- C12: round-robin transmission --------------------- *)

\* C12: the frames on the bus are 0x0C0, 0x0C1, 0x0C2, 0x0C3 and again from
\* 0x0C0; a frame is put on the bus only while the task is registered and the
\* socket stays open, one per timer expiry and without a step of the process;
\* while the socket is open the next transmission is always possible, and once
\* the socket is closed the bus no longer changes.
C12_RoundRobinUntilClose ==
    /\ [](\A k \in 1..Len(bus) : bus[k].can_id = 192 + ((k - 1) % 4))
    /\ [][bus' # bus =>
            /\ task # NoTask /\ sock = "bound" /\ sock' = "bound"
            /\ Len(bus') = Len(bus) + 1
            /\ pc' = pc /\ wlog' = wlog /\ ioOn' = ioOn]_vars
    /\ [][sock = "closed" => bus' = bus]_vars
    /\ []((task # NoTask /\ sock = "bound" /\ Running /\ Len(bus) < MaxTicks)
             => ENABLED KernelTx)

\* five frames went out while the process slept in sigsuspend: the fifth is
\* 0x0C0 again
C12_Witness ==
    /\ prog = "cyclic" /\ pc = "suspend_wait"
    /\ Len(bus) = 5 /\ bus[4].can_id = 195 /\ bus[5].can_id = 192

(* ------------------- C13: the RX_SETUP filter is exact ----------------- *)

\* the frames of a log of external writes, in order
FramesOf(log) == [i \in 1..Len(log) |-> log[i].frame]

\* the external writes made while the subscription existed and carrying id
Subscribed(log, id) == SelectSeq(log, LAMBDA e : e.sub /\ e.frame.can_id = id)

\* C13: in the filtered echo program every frame read has identifier 0x123;
\* the frames read so far followed by the frames still queued on the socket
\* are exactly the 0x123 frames other parties wrote after RX_SETUP, once each
\* and in the order written; every RX line renders a frame that was read and
\* every frame echoed is the transform of a frame that was read.
C13_FilterExact ==
    prog = "bcm" =>
        /\ \A i \in 1..Len(got) : got[i].can_id = 291
        /\ got \o rxq = FramesOf(Subscribed(extLog, 291))
        /\ \A i \in 1..Len(out) :
              \/ out[i] = "Goodbye!"
              \/ \E k \in 1..Len(got) :
                    out[i] \in {"RX:  " \o print_can_frame(got[k]),
                                "TX:  " \o print_can_frame(Transform(prog, got[k]))}
        /\ \A i \in 1..Len(sent) :
              \E k \in 1..Len(got) : sent[i] = Transform(prog, got[k])

\* after RX_SETUP one party wrote a frame with another identifier and one a
\* 0x123 frame: only the latter was read and echoed, and the program is back
\* in read() with nothing queued
C13_Witness ==
    /\ prog = "bcm" /\ pc = "read_wait" /\ rxq = <<>>
    /\ Len(extLog) = 2
    /\ \E i \in 1..2 : extLog[i].sub /\ extLog[i].frame.can_id # 291
    /\ \E i \in 1..2 : extLog[i].sub /\ extLog[i].frame.can_id = 291
    /\ Len(got) = 1 /\ Len(sent) = 1

(* --------------- C14: the life cycle of the cyclic program ------------- *)

\* Open = 0, Registered = 1, Suspended = 2, Closed = 3
CycPhase(at) ==
    IF at \in {"init_signals", "socket", "ioctl", "bind", "build_msg", "tx_setup"}
    THEN 0
    ELSE IF at \in {"print_info", "suspend"} THEN 1
    ELSE IF at = "suspend_wait" THEN 2 ELSE 3

\* C14: the cyclic program never moves back in Open -> Registered ->
\* Suspended -> Closed; it writes at most one command, a TX_SETUP, and exactly
\* one once it is Registered or Suspended; a TX_SETUP write that fails ends the
\* process with a failure status instead of being repeated; and from
\* Registered on the process reads and writes nothing more on the socket.
C14_CyclicLifeCycle ==
    /\ [](prog = "cyclic" =>
            /\ Len(wlog) <= 1
            /\ \A n \in 1..Len(wlog) : wlog[n].head.opcode = "TX_SETUP"
            /\ CycPhase(pc) \in {1, 2} => Len(wlog) = 1 /\ task = wlog[1]
            /\ (Len(wlog) = 1 /\ task = NoTask) =>
                   status = "failure" /\ pc = "done" /\ closeCalls = 0
            /\ got = <<>> /\ sent = <<>>)
    /\ [][prog = "cyclic" => CycPhase(pc') >= CycPhase(pc)]_vars
    /\ [][(prog = "cyclic" /\ CycPhase(pc) >= 1) =>
            wlog' = wlog /\ ioOn' = ioOn /\ task' = task]_vars

\* the cyclic program registered its task, slept until a signal woke it,
\* closed the socket and ended
C14_Witness ==
    /\ prog = "cyclic" /\ status = "success"
    /\ Len(wlog) = 1 /\ closeCalls = 1 /\ lastSigPc = "suspend_wait"

(* ------------- C15: the commands of the filtered echo program ---------- *)

\* the positions of the echo loop
LoopPcs == {"loop", "read", "read_wait", "read_ret", "print_rx", "transform",
            "write", "write_wait", "write_ret", "print_tx"}

\* C15: the first command the filtered echo program writes is RX_SETUP with
\* identifier 0x123 and it is on the socket before the loop and its first read
\* start; every later command is a TX_SEND whose header identifier is 0 and
\* frame count 1 and whose one frame has identifier 0x0BC, at most one per
\* frame read, so RX_SETUP is written exactly once.
C15_BcmCommands ==
    prog = "bcm" =>
        /\ wlog # <<>> =>
              wlog[1].head.opcode = "RX_SETUP" /\ wlog[1].head.can_id = 291
        /\ \A n \in 2..Len(wlog) :
              /\ wlog[n].head.opcode = "TX_SEND"
              /\ wlog[n].head.can_id = 0
              /\ wlog[n].head.nframes = 1
              /\ Len(wlog[n].frames) = 1
              /\ wlog[n].frames[1].can_id = 188
        /\ (pc \in LoopPcs \/ got # <<>>) => Len(wlog) >= 1 /\ filter = 291
        /\ Len(wlog) <= 1 + Len(got)

\* RX_SETUP and two TX_SEND commands were written; the program reads again
C15_Witness ==
    /\ prog = "bcm" /\ pc = "read_wait"
    /\ Len(wlog) = 3 /\ Len(sent) = 2
    /\ wlog[1].head.opcode = "RX_SETUP" /\ wlog[3].head.opcode = "TX_SEND"

(* -------------------- C16: the flag is monotonic ----------------------- *)

\* C16: run is 1 until a signal is delivered; it changes only when an unmasked
\* SIGINT or SIGTERM runs the handler, and then to 0; once 0 it stays 0
\* whatever signals follow.
C16_RunMonotonic ==
    /\ [](run \in {0, 1} /\ (sigs = 0 => run = 1))
    /\ [][run = 0 => run' = 0]_vars
    /\ [][run' # run =>
            /\ EchoProg /\ handlers /\ ~masked
            /\ sigs' = sigs + 1
            /\ run = 1 /\ run' = 0]_vars

\* the handler of an echo program ran twice; the flag is still 0
C16_Witness ==
    /\ EchoProg /\ Running /\ ~masked
    /\ sigs = 2 /\ run = 0

(* ------------------ C17: cancellation is cooperative ------------------- *)

\* C17: whatever the value of run, a frame that was read is printed,
\* transformed and written: from each position between the successful read
\* and the write the only step of the program leads to the next one and is
\* always possible; the echo loop is left for cleanup only from the loop head
\* with run = 0, or after a read or write that failed with an error other
\* than EINTR.
C17_Cooperative ==
    /\ [][(EchoProg /\ pc' # pc) =>
            /\ (pc = "read_ret" /\ rc.res = "ok") => pc' = "print_rx"
            /\ pc = "print_rx" => pc' = "transform"
            /\ pc = "transform" =>
                  pc' = "write" /\ frame' = Transform(prog, frame)
            /\ pc = "write" =>
                  /\ pc' = "write_wait"
                  /\ Len(wlog') = Len(wlog) + 1
                  /\ Last(wlog').frames = <<frame>>
            /\ (pc \in LoopPcs /\ pc' \notin LoopPcs) =>
                  /\ pc' = "cleanup"
                  /\ \/ pc = "loop" /\ run = 0
                     \/ /\ pc \in {"read_ret", "write_ret"}
                        /\ rc.res \notin {"ok", "EINTR"}]_vars
    /\ []((EchoProg /\ Running) =>
            /\ (pc = "read_ret" /\ rc.res = "ok") => ENABLED ReadCheck
            /\ pc = "print_rx" => ENABLED PrintRx
            /\ pc = "transform" => ENABLED TransformFrame
            /\ pc = "write" => ENABLED WriteEnter)

\* the one signal arrived after the read had returned a frame and before the
\* write was issued: with run = 0 the frame is nevertheless being written
C17_Witness ==
    /\ EchoProg /\ pc = "write_wait" /\ run = 0
    /\ sigs = 1 /\ lastSigPc \in {"print_rx", "transform", "write"}
    /\ Last(wlog).frames = <<Transform(prog, Last(got))>>

(* ------------- C18: the signals are blocked during the close ----------- *)

\* C18: in every program the signals are blocked whenever the process is at
\* the close or after it; once blocked they stay blocked, the handler no
\* longer runs (run keeps its value), and a SIGINT or SIGTERM sent then only
\* becomes pending: it changes neither the position of the process, nor the
\* result of a call, nor the socket, nor the exit status.
C18_MaskedDuringClose ==
    /\ []((pc \in {"close", "goodbye"} \/ sock = "closed") <=> masked)
    /\ [][masked => masked' /\ run' = run /\ handlers' = handlers]_vars
    /\ [][(masked /\ sigs' # sigs) =>
            /\ pending'
            /\ pc' = pc /\ rc' = rc /\ status' = status
            /\ sock' = sock /\ closeCalls' = closeCalls
            /\ out' = out /\ err' = err]_vars

\* a signal was sent while the process was in close(): it stayed pending and
\* the process ended normally
C18_Witness ==
    /\ pending /\ lastSigPc = "close"
    /\ status = "success" /\ closeCalls = 1 /\ Last(out) = "Goodbye!"

(* ---------------------- C19: the RX and TX lines ----------------------- *)

RxLine(f) == "RX:  " \o print_can_frame(f)

TxLine(f) == "TX:  " \o print_can_frame(f)

\* every RX line and every TX line the echo programs can print
RxLines == {RxLine(f) : f \in BusFrames}
TxLines == {TxLine(Transform(p, f)) : p \in {"raw", "bcm"}, f \in BusFrames}

\* frames read whose RX line is printed, frames written whose TX line is
NumRxPrinted ==
    Len(got) - (IF (pc = "read_ret" /\ rc.res = "ok") \/ pc = "print_rx" THEN 1 ELSE 0)
NumTxPrinted ==
    Len(sent) - (IF (pc = "write_ret" /\ rc.res = "ok") \/ pc = "print_tx" THEN 1 ELSE 0)

\* C19: in the echo programs the output has as many RX lines as frames were
\* read and as many TX lines as frames were written successfully (the frame
\* in hand excepted until its line is printed); an RX line is printed only
\* for the frame just read; a TX line is printed only by the step after a
\* write that returned success, renders the frame just written, and directly
\* follows the RX line of the frame it was derived from.
C19_OutputLines ==
    /\ [](EchoProg =>
            /\ Len(SelectSeq(out, LAMBDA l : l \in RxLines)) = NumRxPrinted
            /\ Len(SelectSeq(out, LAMBDA l : l \in TxLines)) = NumTxPrinted)
    /\ [][(EchoProg /\ out' # out) =>
            /\ Len(out') = Len(out) + 1
            /\ Last(out') \in RxLines =>
                  /\ pc = "print_rx"
                  /\ rc = [call |-> "read", res |-> "ok"]
                  /\ out' = Append(out, RxLine(Last(got)))
            /\ Last(out') \in TxLines =>
                  /\ pc = "print_tx"
                  /\ rc = [call |-> "write", res |-> "ok"]
                  /\ out' = Append(out, TxLine(Last(sent)))
                  /\ Last(sent) = Transform(prog, Last(got))
                  /\ Last(out) = RxLine(Last(got))]_vars

\* two frames were read and printed; the first was written and has its TX
\* line, the write of the second was interrupted and it has none
C19_Witness ==
    /\ EchoProg /\ pc = "loop"
    /\ Len(got) = 2 /\ Len(sent) = 1
    /\ rc = [call |-> "write", res |-> "EINTR"]
    /\ out = <<RxLine(got[1]), TxLine(sent[1]), RxLine(got[2])>>

(* ----------------- C20: EINTR is never a failure ----------------------- *)

\* C20: no process has ended with a failure status because a read or a write
\* on the socket, the RX_SETUP and TX_SETUP writes included, returned EINTR.
C20_EintrNeverFatal ==
    ~(/\ status = "failure"
      /\ rc.call \in {"read", "write"}
      /\ rc.res = "EINTR")

(* ------------- C21: the diagnostic names the failed operation ---------- *)

\* C21: when a system call has failed with an error other than EINTR and the
\* process has ended with a failure status or left the loop for cleanup
\* because of it, the last diagnostic printed names that system call.
C21_DiagnosticNamesOperation ==
    (/\ rc.res \notin {"ok", "EINTR"}
     /\ status = "failure" \/ pc = "cleanup") =>
        err # <<>> /\ Last(err) = rc.call

(* ------------- C22: the filtered echo cannot feed itself --------------- *)

\* C22: in the filtered echo program every frame sent has identifier 0x0BC,
\* which is not the identifier 0x123 of the filter, so it does not pass the
\* filter; sending a frame never queues a frame on the session's own socket;
\* and the frames sent are never more than the 0x123 frames other parties
\* wrote after RX_SETUP.
C22_NoSelfFeed ==
    /\ [](prog = "bcm" =>
            /\ \A i \in 1..Len(sent) :
                  /\ sent[i].can_id = 188
                  /\ sent[i].can_id # 291
                  /\ ~LoopedBack(sent[i])
            /\ filter \in {0, 291}
            /\ Len(sent) <= Len(got)
            /\ Len(got) + Len(rxq) = Len(Subscribed(extLog, 291))
            /\ Len(sent) <= Len(Subscribed(extLog, 291)))
    /\ [][(prog = "bcm" /\ sent' # sent) =>
            /\ rxq' = rxq /\ got' = got
            /\ Last(sent').can_id # filter]_vars

\* other parties wrote two 0x123 frames; both were echoed, nothing is queued
\* on the socket and the program waits in read()
C22_Witness ==
    /\ prog = "bcm" /\ pc = "read_wait"
    /\ Len(sent) = 2 /\ Len(Subscribed(extLog, 291)) = 2
    /\ rxq = <<>> /\ filter = 291

(* ---------- C23: a signal during the setup is not lost ----------------- *)

\* the first test of while (run): the last call was the bind of init_socket
\* (raw) or the RX_SETUP write (bcm) and nothing has been read
FirstTest == pc = "loop" /\ got = <<>> /\ rc.call \in {"bind", "write"}

\* the setup succeeded and run was already 0 at the first test: the program
\* is at that test or on its way from there to close()
SkippedLoop ==
    /\ EchoProg /\ setupDone /\ run = 0
    /\ got = <<>> /\ rc.call \in {"bind", "write"}
    /\ pc \in {"loop", "cleanup", "close"}

====
